---------------------------- MODULE Spec2Model ----------------------------
(***************************************************************************)
(* Connection handshake of the MongoDB Rust driver                         *)
(* (src/cmap/establish/handshake/mod.rs).                                  *)
(*                                                                         *)
(* One Handshaker is built by Handshaker::new from pool options; NConns    *)
(* connections are then handshaked concurrently through it.  The async fn  *)
(* Handshaker::handshake is cut into its sequential steps; the only        *)
(* suspension point is the call of run_is_master (Send .. Receive).        *)
(*                                                                         *)
(* NewSpec looks at construction alone: NThreads threads call              *)
(* Handshaker::new concurrently, the first one through the lazy_static's   *)
(* Once running the initializer of BASE_CLIENT_METADATA.                   *)
(*                                                                         *)
(* Encodings: Option<T> is a sequence of length 0 (None) or 1 (Some(x));   *)
(* a Rust String is a sequence of string tokens (push_str appends); a bson *)
(* Document is a sequence of <<key, value>> pairs in insertion order;      *)
(* Result<T> is [ok |-> TRUE, val |-> t] or [ok |-> FALSE, val |-> e].     *)
(***************************************************************************)
EXTENDS Naturals, Sequences, FiniteSets

VARIABLES
    BASE_CLIENT_METADATA, \* Option<ClientMetadata>: the lazy_static cell
    pool_options,         \* Option<Option<HandshakerOptions>>: what new() was given
    handshaker,           \* Option<Handshaker>: [command, credential]
    pc,                   \* per connection: position of its handshake() call
    command,              \* per call: the local `command` (Option<Command>)
    client_first,         \* per call: the local `client_first`
    is_master_reply,      \* per call: the local `is_master_reply`
    first_round,          \* per call: the local `first_round`
    conn,                 \* per connection: [stream_description]
    result,               \* per call: Option<Result<HandshakeResult>>
    exec_log,             \* per connection: what run_is_master was given / gave
    mechanisms_asked,     \* per call: the mechanisms the composer asked for a message
    once,                 \* state of the Once guarding BASE_CLIENT_METADATA
    init_runs,            \* how many times the lazy_static initializer has run
    new_pc,               \* per thread: position of its Handshaker::new() call
    new_options,          \* per thread: the options its new() call was given
    new_metadata,         \* per thread: the local `metadata` as cloned at line 147
    new_result            \* per thread: the Handshaker its new() call returned

vars == <<BASE_CLIENT_METADATA, pool_options, handshaker, pc, command, client_first,
          is_master_reply, first_round, conn, result, exec_log, mechanisms_asked,
          once, init_runs, new_pc, new_options, new_metadata, new_result>>

(* ------------------------------ bounds -------------------------------- *)

\* Number of connections handshaked concurrently through the Handshaker.
NConns == 2

Conns == 1..NConns

\* Number of threads that call Handshaker::new concurrently.
NThreads == 2

Threads == 1..NThreads

\* What a new() call on its own thread holds: the position, the options it
\* was given, its clone of the base metadata and the Handshaker it returned.
construction == <<new_pc, new_options, new_metadata, new_result>>

(* --------------------------- Option / Result --------------------------- *)

None == <<>>

Some(x) == <<x>>

is_some(o) == Len(o) = 1

is_none(o) == Len(o) = 0

unwrap(o) == o[1]

Ok(v) == [ok |-> TRUE, val |-> v]

Err(e) == [ok |-> FALSE, val |-> e]

(* ---------------------------- bson Document ---------------------------- *)

contains_key(d, k) == \E i \in 1..Len(d) : d[i][1] = k

get(d, k) == d[CHOOSE i \in 1..Len(d) : d[i][1] = k][2]

\* Document::insert: replaces the value of an existing key in place,
\* appends the pair otherwise.
insert(d, k, v) ==
    IF contains_key(d, k)
    THEN [i \in 1..Len(d) |-> IF d[i][1] = k THEN <<k, v>> ELSE d[i]]
    ELSE Append(d, <<k, v>>)

\* The document without key k (used to state frame conditions).
without(d, k) == SelectSeq(d, LAMBDA p : p[1] # k)


(* --------------------------- ClientMetadata ---------------------------- *)

RUNTIME_NAME == "tokio"

CARGO_PKG_VERSION == "2.0.0-beta"

\* String::push / String::push_str on the token form of a String.
push_str(s, t) == s \o t

\* impl From<OsMetadata> for Bson
OsMetadataToBson(os) ==
    LET d0 == << <<"type", os.os_type>> >>
        d1 == IF is_some(os.name) THEN insert(d0, "name", unwrap(os.name)) ELSE d0
        d2 == insert(d1, "architecture", os.architecture)
    IN  IF is_some(os.version) THEN insert(d2, "version", unwrap(os.version)) ELSE d2

\* impl From<ClientMetadata> for Bson
ClientMetadataToBson(metadata) ==
    LET d0 == IF is_some(metadata.application)
              THEN insert(<<>>, "application",
                          << <<"name", unwrap(metadata.application).name>> >>)
              ELSE <<>>
        d1 == insert(d0, "driver", << <<"name", metadata.driver.name>>,
                                      <<"version", metadata.driver.version>> >>)
        d2 == insert(d1, "os", OsMetadataToBson(metadata.os))
    IN  IF is_some(metadata.platform)
        THEN insert(d2, "platform", unwrap(metadata.platform))
        ELSE d2

\* What os_info::get() can report as the OS version (Some only when both the
\* OS type and its version are known), and what version_check::triple() can
\* report: results of probing the host, which the program does not control.
OsVersionProbes == {None, Some(<<"5.10">>)}

RustcTripleProbes == {None, Some(<<"1.51.0", "stable", "2021-03-23">>)}

\* The initializer of the lazy_static BASE_CLIENT_METADATA.
BaseClientMetadataInit(os_version, triple) ==
    [application |-> None,
     driver      |-> [name |-> <<"mongo-rust-driver">>,
                      version |-> <<CARGO_PKG_VERSION>>],
     os          |-> [os_type |-> <<"linux">>, architecture |-> <<"x86_64">>,
                      name |-> None, version |-> os_version],
     platform    |-> IF is_some(triple)
                     THEN Some(<<"rustc ", unwrap(triple)[1], " ", unwrap(triple)[2],
                                 " (", unwrap(triple)[3], ") with ", RUNTIME_NAME>>)
                     ELSE None]

(* ------------------------ external collaborators ----------------------- *)

\* is_master::is_master_command: the base command, with the API version
\* declared when the caller opted into a versioned API.
is_master_command(server_api) ==
    [name      |-> "isMaster",
     target_db |-> "admin",
     body      |-> IF is_some(server_api)
                   THEN << <<"isMaster", 1>>, <<"apiVersion", unwrap(server_api)>> >>
                   ELSE << <<"isMaster", 1>> >>]

\* Credential::append_needed_mechanism_negotiation: asks the server which
\* mechanisms the user may use, needed when the credential declares none.
append_needed_mechanism_negotiation(cred, body) ==
    IF is_none(cred.mechanism) /\ is_some(cred.username)
    THEN insert(body, "saslSupportedMechs",
                <<cred.resolved_source_db, ".", unwrap(cred.username)>>)
    ELSE body

\* Credential::resolved_source
resolved_source(cred) == cred.resolved_source_db

\* AuthMechanism::build_speculative_client_first: a SCRAM mechanism or X.509
\* builds a client-first message, and SCRAM fails on a credential without a
\* user name; a mechanism that cannot speculate yields no message.  The
\* nonce stands for the random material of the message.
build_speculative_client_first(mechanism, credential, nonce) ==
    CASE mechanism \in {"SCRAM-SHA-1", "SCRAM-SHA-256"} ->
            IF is_some(credential.username)
            THEN Ok(Some([mechanism |-> mechanism,
                          source    |-> resolved_source(credential),
                          nonce     |-> nonce]))
            ELSE Err("Authentication")
      [] mechanism = "MONGODB-X509" ->
            Ok(Some([mechanism |-> mechanism,
                     source    |-> resolved_source(credential),
                     nonce     |-> nonce]))
      [] OTHER -> Ok(None)

\* ClientFirst::to_document: the command document of the first message.
to_document(cf) ==
    << <<"mechanism", cf.mechanism>>, <<"db", cf.source>>, <<"payload", cf.nonce>> >>

\* ClientFirst::into_first_round
into_first_round(cf, server_first) ==
    [client_first |-> cf, server_first |-> server_first]

\* StreamDescription::from_is_master: the connection's view of the server,
\* derived from the reply it is given.
StreamDescription_from_is_master(reply) ==
    [server_address |-> reply.server_address,
     service_id     |-> reply.command_response.service_id,
     reply_speculative_authenticate |-> reply.command_response.speculative_authenticate]

(* --------------------------- Handshaker::new --------------------------- *)

Credentials ==
    { [username |-> Some("user"), resolved_source_db |-> "admin",     mechanism |-> None],
      [username |-> None,         resolved_source_db |-> "admin",     mechanism |-> None],
      [username |-> Some("user"), resolved_source_db |-> "authdb",    mechanism |-> Some("SCRAM-SHA-1")],
      [username |-> Some("user"), resolved_source_db |-> "$external", mechanism |-> Some("PLAIN")],
      [username |-> None,         resolved_source_db |-> "$external", mechanism |-> Some("MONGODB-X509")] }

DriverInfos ==
    { [name |-> <<"wrapperA">>, version |-> v, platform |-> p] :
        v \in {None, Some(<<"9">>)}, p \in {None, Some(<<"wrapperA-platform">>)} }

HandshakerOptionsRecords ==
    [app_name     : {None, Some(<<"app">>)},
     credential   : {None} \cup {Some(cr) : cr \in Credentials},
     driver_info  : {None} \cup {Some(di) : di \in DriverInfos},
     server_api   : {None, Some("1")},
     load_balanced: BOOLEAN]

\* Option<HandshakerOptions>: every configuration surface value.
AllHandshakerOptions == {None} \cup {Some(o) : o \in HandshakerOptionsRecords}

\* A variant that puts the wrapping library in front of the base driver.
customize_wrapper_first(base, options) ==
    LET m0 == base
        m1 == IF is_some(options.app_name)
              THEN [m0 EXCEPT !.application = Some([name |-> unwrap(options.app_name)])]
              ELSE m0
    IN  IF is_none(options.driver_info) THEN m1
        ELSE LET driver_info == unwrap(options.driver_info)
                 m2 == [m1 EXCEPT !.driver.name =
                            push_str(push_str(driver_info.name, <<"|">>), @)]
                 m3 == IF is_some(driver_info.version)
                       THEN [m2 EXCEPT !.driver.version =
                                push_str(push_str(unwrap(driver_info.version), <<"|">>), @)]
                       ELSE m2
             IN  IF is_some(m3.platform) /\ is_some(driver_info.platform)
                 THEN [m3 EXCEPT !.platform =
                          Some(push_str(push_str(unwrap(@), <<"|">>),
                                        unwrap(driver_info.platform)))]
                 ELSE m3

\* A variant that pushes the separator onto the version whether or not the
\* driver info has one.
customize_version_separator(base, options) ==
    LET m0 == base
        m1 == IF is_some(options.app_name)
              THEN [m0 EXCEPT !.application = Some([name |-> unwrap(options.app_name)])]
              ELSE m0
    IN  IF is_none(options.driver_info) THEN m1
        ELSE LET driver_info == unwrap(options.driver_info)
                 m2 == [m1 EXCEPT !.driver.name =
                            push_str(push_str(@, <<"|">>), driver_info.name)]
                 m3 == [m2 EXCEPT !.driver.version =
                            push_str(push_str(@, <<"|">>),
                                     IF is_some(driver_info.version)
                                     THEN unwrap(driver_info.version) ELSE <<>>)]
             IN  IF is_some(m3.platform) /\ is_some(driver_info.platform)
                 THEN [m3 EXCEPT !.platform =
                          Some(push_str(push_str(unwrap(@), <<"|">>),
                                        unwrap(driver_info.platform)))]
                 ELSE m3

\* The metadata as customized by lines 154-173.
customize(base, options) ==
    LET m0 == base
        m1 == IF is_some(options.app_name)
              THEN [m0 EXCEPT !.application = Some([name |-> unwrap(options.app_name)])]
              ELSE m0
    IN  IF is_none(options.driver_info) THEN m1
        ELSE LET driver_info == unwrap(options.driver_info)
                 m2 == [m1 EXCEPT !.driver.name =
                            push_str(push_str(@, <<"|">>), driver_info.name)]
                 m3 == IF is_some(driver_info.version)
                       THEN [m2 EXCEPT !.driver.version =
                                push_str(push_str(@, <<"|">>), unwrap(driver_info.version))]
                       ELSE m2
             IN  IF is_some(m3.platform) /\ is_some(driver_info.platform)
                 THEN [m3 EXCEPT !.platform =
                          Some(push_str(push_str(unwrap(@), <<"|">>),
                                        unwrap(driver_info.platform)))]
                 ELSE m3

\* A variant that writes the loadBalanced flag whatever its value.
Handshaker_new_flag_always(base, options) ==
    LET opts     == IF is_some(options) THEN unwrap(options)
                    ELSE [app_name |-> None, credential |-> None, driver_info |-> None,
                          server_api |-> None, load_balanced |-> FALSE]
        metadata == IF is_some(options) THEN customize(base, opts) ELSE base
        c0 == is_master_command(opts.server_api)
        c1 == IF is_some(opts.credential)
              THEN [c0 EXCEPT
                      !.body = append_needed_mechanism_negotiation(unwrap(opts.credential), @),
                      !.target_db = resolved_source(unwrap(opts.credential))]
              ELSE c0
        c2 == [c1 EXCEPT !.body = insert(@, "loadBalanced", opts.load_balanced)]
    IN  [command    |-> [c2 EXCEPT !.body = insert(@, "client", ClientMetadataToBson(metadata))],
         credential |-> opts.credential]

\* A variant that leaves the command's target database at its default.
Handshaker_new_default_db(base, options) ==
    LET opts     == IF is_some(options) THEN unwrap(options)
                    ELSE [app_name |-> None, credential |-> None, driver_info |-> None,
                          server_api |-> None, load_balanced |-> FALSE]
        metadata == IF is_some(options) THEN customize(base, opts) ELSE base
        c0 == is_master_command(opts.server_api)
        c1 == IF is_some(opts.credential)
              THEN [c0 EXCEPT
                      !.body = append_needed_mechanism_negotiation(unwrap(opts.credential), @)]
              ELSE c0
        c2 == IF opts.load_balanced
              THEN [c1 EXCEPT !.body = insert(@, "loadBalanced", TRUE)]
              ELSE c1
    IN  [command    |-> [c2 EXCEPT !.body = insert(@, "client", ClientMetadataToBson(metadata))],
         credential |-> opts.credential]

\* Handshaker::new(options), given the value of BASE_CLIENT_METADATA.
Handshaker_new(base, options) ==
    LET opts     == IF is_some(options) THEN unwrap(options)
                    ELSE [app_name |-> None, credential |-> None, driver_info |-> None,
                          server_api |-> None, load_balanced |-> FALSE]
        metadata == IF is_some(options) THEN customize(base, opts) ELSE base
        c0 == is_master_command(opts.server_api)
        c1 == IF is_some(opts.credential)
              THEN [c0 EXCEPT
                      !.body = append_needed_mechanism_negotiation(unwrap(opts.credential), @),
                      !.target_db = resolved_source(unwrap(opts.credential))]
              ELSE c0
        c2 == IF opts.load_balanced
              THEN [c1 EXCEPT !.body = insert(@, "loadBalanced", TRUE)]
              ELSE c1
    IN  [command    |-> [c2 EXCEPT !.body = insert(@, "client", ClientMetadataToBson(metadata))],
         credential |-> opts.credential]


(* ----------------------- set_speculative_auth_info --------------------- *)

\* A variant that falls back to a mechanism without a speculative first
\* message.
DefaultMechanism_plain == "PLAIN"

\* The mechanism assumed when the credential declares none (line 292).
DefaultMechanism == "SCRAM-SHA-256"

\* A variant that turns a failure to build the first message into "no
\* speculative state" instead of returning it.
set_speculative_auth_info_swallow(body, credential, nonce) ==
    IF is_none(credential)
    THEN [result |-> Ok(None), command |-> body, asked |-> <<>>]
    ELSE LET cred           == unwrap(credential)
             auth_mechanism == IF is_some(cred.mechanism) THEN unwrap(cred.mechanism)
                               ELSE DefaultMechanism
             built          == build_speculative_client_first(auth_mechanism, cred, nonce)
         IN  IF ~built.ok \/ is_none(built.val)
             THEN [result |-> Ok(None), command |-> body, asked |-> <<auth_mechanism>>]
             ELSE [result  |-> Ok(Some(unwrap(built.val))),
                   command |-> insert(body, "speculativeAuthenticate",
                                      to_document(unwrap(built.val))),
                   asked   |-> <<auth_mechanism>>]

\* A variant that reserves the speculativeAuthenticate key before it knows
\* whether the mechanism yields a message.
set_speculative_auth_info_reserve(body, credential, nonce) ==
    IF is_none(credential)
    THEN [result |-> Ok(None), command |-> body, asked |-> <<>>]
    ELSE LET cred           == unwrap(credential)
             auth_mechanism == IF is_some(cred.mechanism) THEN unwrap(cred.mechanism)
                               ELSE DefaultMechanism
             built          == build_speculative_client_first(auth_mechanism, cred, nonce)
             reserved       == insert(body, "speculativeAuthenticate", <<>>)
         IN  IF ~built.ok
             THEN [result |-> built, command |-> reserved, asked |-> <<auth_mechanism>>]
             ELSE IF is_none(built.val)
             THEN [result |-> Ok(None), command |-> reserved, asked |-> <<auth_mechanism>>]
             ELSE [result  |-> Ok(Some(unwrap(built.val))),
                   command |-> insert(reserved, "speculativeAuthenticate",
                                      to_document(unwrap(built.val))),
                   asked   |-> <<auth_mechanism>>]

\* A variant that asks the default mechanism whatever the credential
\* declares.
set_speculative_auth_info_default_only(body, credential, nonce) ==
    IF is_none(credential)
    THEN [result |-> Ok(None), command |-> body, asked |-> <<>>]
    ELSE LET cred           == unwrap(credential)
             auth_mechanism == DefaultMechanism
             built          == build_speculative_client_first(auth_mechanism, cred, nonce)
         IN  IF ~built.ok
             THEN [result |-> built, command |-> body, asked |-> <<auth_mechanism>>]
             ELSE IF is_none(built.val)
             THEN [result |-> Ok(None), command |-> body, asked |-> <<auth_mechanism>>]
             ELSE [result  |-> Ok(Some(unwrap(built.val))),
                   command |-> insert(body, "speculativeAuthenticate",
                                      to_document(unwrap(built.val))),
                   asked   |-> <<auth_mechanism>>]

\* set_speculative_auth_info(command, credential): the returned
\* Result<Option<ClientFirst>>, the document `command` as it leaves it, and
\* the mechanisms it called build_speculative_client_first on, in order.
set_speculative_auth_info(body, credential, nonce) ==
    IF is_none(credential)
    THEN [result |-> Ok(None), command |-> body, asked |-> <<>>]
    ELSE LET cred           == unwrap(credential)
             auth_mechanism == IF is_some(cred.mechanism) THEN unwrap(cred.mechanism)
                               ELSE DefaultMechanism
             built          == build_speculative_client_first(auth_mechanism, cred, nonce)
         IN  IF ~built.ok
             THEN [result |-> built, command |-> body, asked |-> <<auth_mechanism>>]
             ELSE IF is_none(built.val)
             THEN [result |-> Ok(None), command |-> body, asked |-> <<auth_mechanism>>]
             ELSE [result  |-> Ok(Some(unwrap(built.val))),
                   command |-> insert(body, "speculativeAuthenticate",
                                      to_document(unwrap(built.val))),
                   asked   |-> <<auth_mechanism>>]

(* ------------------------- Handshaker::handshake ----------------------- *)

\* A variant of the load-balancing check that tests the service id the
\* wrong way round.
LoadBalanceMismatch_inverted(self_command, reply) ==
    /\ contains_key(self_command.body, "loadBalanced")
    /\ is_some(reply.command_response.service_id)

\* Lines 201-202: load balancing was requested and the server did not
\* answer with a service id.
LoadBalanceMismatch(self_command, reply) ==
    /\ contains_key(self_command.body, "loadBalanced")
    /\ is_none(reply.command_response.service_id)

IncompatibleServer == "IncompatibleServer"

\* A variant that pairs whenever the server answered speculatively, whether
\* or not a client-first value exists.
pair_first_round_unconditional(cf, reply) ==
    IF is_some(reply.command_response.speculative_authenticate)
    THEN [first_round |->
              Some([client_first |-> cf,
                    server_first |-> unwrap(reply.command_response.speculative_authenticate)]),
          is_master_reply |->
              [reply EXCEPT !.command_response.speculative_authenticate = None]]
    ELSE [first_round |-> None, is_master_reply |-> reply]

\* A variant that pairs the server's response with a client-first value built
\* anew (fresh random material) instead of the one that was sent.
pair_first_round_rebuilt(cf, reply) ==
    IF is_some(cf) /\ is_some(reply.command_response.speculative_authenticate)
    THEN [first_round |->
              Some(into_first_round([unwrap(cf) EXCEPT !.nonce = 0],
                                    unwrap(reply.command_response.speculative_authenticate))),
          is_master_reply |->
              [reply EXCEPT !.command_response.speculative_authenticate = None]]
    ELSE [first_round |-> None, is_master_reply |-> reply]

\* A variant that copies the server's response into the first round and
\* leaves it in the reply.
pair_first_round_copied(cf, reply) ==
    IF is_some(cf) /\ is_some(reply.command_response.speculative_authenticate)
    THEN [first_round |->
              Some(into_first_round(unwrap(cf),
                                    unwrap(reply.command_response.speculative_authenticate))),
          is_master_reply |-> reply]
    ELSE [first_round |-> None, is_master_reply |-> reply]

\* A variant that takes the server's response out of the reply and drops it.
pair_first_round_dropped(cf, reply) ==
    [first_round     |-> None,
     is_master_reply |-> IF is_some(cf)
                         THEN [reply EXCEPT !.command_response.speculative_authenticate = None]
                         ELSE reply]

\* Lines 215-221: the first round, and the reply after the server's
\* response was taken out of it.
pair_first_round(cf, reply) ==
    IF is_some(cf) /\ is_some(reply.command_response.speculative_authenticate)
    THEN [first_round |->
              Some(into_first_round(unwrap(cf),
                                    unwrap(reply.command_response.speculative_authenticate))),
          is_master_reply |->
              [reply EXCEPT !.command_response.speculative_authenticate = None]]
    ELSE [first_round |-> None, is_master_reply |-> reply]

\* What run_is_master can give back on connection c: a decoded reply, with
\* or without a service id and a speculative authentication response, or
\* a transport / protocol error.
Replies(c) ==
    { [server_address   |-> "localhost:27017",
       command_response |-> [service_id |-> sid, speculative_authenticate |-> sa]] :
        sid \in {None, Some("service-1")},
        sa  \in {None, Some(<<"server-first", c>>)} }

ExecErrors == {"Io", "Command"}

\* The pool options the handshakes are run with: every credential and
\* load-balancing choice with the identity options unset, and the
\* credentials without a declared mechanism (and none) with all of them set.
PoolOptions ==
    {None} \cup
    { Some(o) : o \in { r \in HandshakerOptionsRecords :
          \/ /\ is_none(r.app_name) /\ is_none(r.driver_info) /\ is_none(r.server_api)
          \/ /\ is_some(r.app_name) /\ is_some(r.server_api) /\ is_some(r.driver_info)
             /\ is_some(unwrap(r.driver_info).version)
             /\ is_some(unwrap(r.driver_info).platform)
             /\ is_some(r.credential) => is_none(unwrap(r.credential).mechanism) } }

\* What probing the host gave: everything, or nothing.
Hosts ==
    { h \in [os_version : OsVersionProbes, triple : RustcTripleProbes] :
          is_some(h.os_version) <=> is_some(h.triple) }

Init ==
    /\ BASE_CLIENT_METADATA = None
    /\ pool_options = None
    /\ handshaker = None
    /\ pc = [c \in Conns |-> "Init"]
    /\ command = [c \in Conns |-> None]
    /\ client_first = [c \in Conns |-> None]
    /\ is_master_reply = [c \in Conns |-> None]
    /\ first_round = [c \in Conns |-> None]
    /\ conn = [c \in Conns |-> [stream_description |-> None]]
    /\ result = [c \in Conns |-> None]
    /\ exec_log = [c \in Conns |-> <<>>]
    /\ mechanisms_asked = [c \in Conns |-> <<>>]
    /\ once = "Incomplete"
    /\ init_runs = 0
    /\ new_pc = [t \in Threads |-> "Entered"]
    /\ new_options = [t \in Threads |-> None]
    /\ new_metadata = [t \in Threads |-> None]
    /\ new_result = [t \in Threads |-> None]

\* Handshaker::new(options) on a host where probing gives `host`.  Its first
\* line dereferences the lazy_static, which runs the initializer if the cell
\* is still empty.
New(options, host) ==
    /\ handshaker = None
    /\ BASE_CLIENT_METADATA' =
          IF is_none(BASE_CLIENT_METADATA)
          THEN Some(BaseClientMetadataInit(host.os_version, host.triple))
          ELSE BASE_CLIENT_METADATA
    /\ handshaker' = Some(Handshaker_new(unwrap(BASE_CLIENT_METADATA'), options))
    /\ pool_options' = Some(options)
    /\ once' = "Complete"
    /\ init_runs' = IF is_none(BASE_CLIENT_METADATA) THEN init_runs + 1 ELSE init_runs
    /\ UNCHANGED <<pc, command, client_first, is_master_reply, first_round,
                   conn, result, exec_log, mechanisms_asked, construction>>

\* A handshake() call that returns Err(e): the reply and the authentication
\* state it held are dropped.
Fail(c, e) ==
    /\ pc' = [pc EXCEPT ![c] = "Failed"]
    /\ result' = [result EXCEPT ![c] = Some(Err(e))]
    /\ client_first' = [client_first EXCEPT ![c] = None]
    /\ is_master_reply' = [is_master_reply EXCEPT ![c] = None]
    /\ first_round' = [first_round EXCEPT ![c] = None]

\* Line 196: let mut command = self.command.clone();
Clone(c) ==
    /\ is_some(handshaker)
    /\ pc[c] = "Init"
    /\ command' = [command EXCEPT ![c] = Some(unwrap(handshaker).command)]
    /\ pc' = [pc EXCEPT ![c] = "CommandCloned"]
    /\ UNCHANGED <<mechanisms_asked, once, init_runs, construction>>
    /\ UNCHANGED <<BASE_CLIENT_METADATA, pool_options, handshaker, client_first, is_master_reply,
                   first_round, conn, result, exec_log>>

\* A variant that composes on the Handshaker's own command instead of the
\* call's clone.
SetSpeculativeAuthInfo_on_template(c) ==
    /\ pc[c] = "CommandCloned"
    /\ LET r == set_speculative_auth_info(unwrap(handshaker).command.body,
                                          unwrap(handshaker).credential, c)
       IN  /\ handshaker' = Some([unwrap(handshaker) EXCEPT !.command.body = r.command])
           /\ command' = [command EXCEPT ![c] = Some(unwrap(handshaker').command)]
           /\ mechanisms_asked' = [mechanisms_asked EXCEPT ![c] = @ \o r.asked]
           /\ IF r.result.ok
              THEN
                /\ client_first' = [client_first EXCEPT ![c] = r.result.val]
                /\ pc' = [pc EXCEPT ![c] = IF is_some(r.result.val)
                                           THEN "SpeculativeAuthAttached"
                                           ELSE "SpeculativeAuthSkipped"]
                /\ UNCHANGED <<is_master_reply, first_round, result>>
              ELSE Fail(c, r.result.val)
    /\ UNCHANGED <<once, init_runs, construction>>
    /\ UNCHANGED <<BASE_CLIENT_METADATA, pool_options, conn, exec_log>>

\* Line 198: set_speculative_auth_info(&mut command.body, credential)?
\* On Err the call returns; `command` then shows the body as the composer
\* left it.
SetSpeculativeAuthInfo(c) ==
    /\ pc[c] = "CommandCloned"
    /\ LET r == set_speculative_auth_info(unwrap(command[c]).body,
                                          unwrap(handshaker).credential, c)
       IN  /\ command' = [command EXCEPT ![c] =
                             Some([unwrap(@) EXCEPT !.body = r.command])]
           /\ mechanisms_asked' = [mechanisms_asked EXCEPT ![c] = @ \o r.asked]
           /\ IF r.result.ok
              THEN
                /\ client_first' = [client_first EXCEPT ![c] = r.result.val]
                /\ pc' = [pc EXCEPT ![c] = IF is_some(r.result.val)
                                           THEN "SpeculativeAuthAttached"
                                           ELSE "SpeculativeAuthSkipped"]
                /\ UNCHANGED <<is_master_reply, first_round, result>>
              ELSE Fail(c, r.result.val)
    /\ UNCHANGED <<once, init_runs, construction>>
    /\ UNCHANGED <<BASE_CLIENT_METADATA, pool_options, handshaker, conn, exec_log>>

\* Line 200, the call: run_is_master(command, conn) takes the command.
Send(c) ==
    /\ pc[c] \in {"SpeculativeAuthAttached", "SpeculativeAuthSkipped"}
    /\ exec_log' = [exec_log EXCEPT ![c] =
                       Append(@, [command |-> unwrap(command[c]), outcome |-> None])]
    /\ command' = [command EXCEPT ![c] = None]
    /\ pc' = [pc EXCEPT ![c] = "Sent"]
    /\ UNCHANGED <<mechanisms_asked, once, init_runs, construction>>
    /\ UNCHANGED <<BASE_CLIENT_METADATA, pool_options, handshaker, client_first, is_master_reply,
                   first_round, conn, result>>

\* The command call c gave to run_is_master last.
LastSent(c) == exec_log[c][Len(exec_log[c])].command

\* A variant that sends the command again when the execution step fails.
Receive_retry(c) ==
    /\ pc[c] = "Sent"
    /\ \E out \in {Ok(r) : r \in Replies(c)} \cup {Err(e) : e \in ExecErrors} :
          /\ IF out.ok
             THEN /\ exec_log' = [exec_log EXCEPT ![c][Len(exec_log[c])].outcome = Some(out)]
                  /\ is_master_reply' = [is_master_reply EXCEPT ![c] = Some(out.val)]
                  /\ pc' = [pc EXCEPT ![c] = "ReplyReceived"]
             ELSE /\ exec_log' = [exec_log EXCEPT ![c] =
                        Append([@ EXCEPT ![Len(exec_log[c])].outcome = Some(out)],
                               [command |-> LastSent(c), outcome |-> None])]
                  /\ UNCHANGED <<is_master_reply, pc>>
    /\ UNCHANGED <<mechanisms_asked, once, init_runs, construction>>
    /\ UNCHANGED <<BASE_CLIENT_METADATA, pool_options, handshaker, command, client_first,
                   first_round, result, conn>>

\* Line 200, the await and the `?`: run_is_master returns.
Receive(c) ==
    /\ pc[c] = "Sent"
    /\ \E out \in {Ok(r) : r \in Replies(c)} \cup {Err(e) : e \in ExecErrors} :
          /\ exec_log' = [exec_log EXCEPT ![c][Len(exec_log[c])].outcome = Some(out)]
          /\ IF out.ok
             THEN /\ is_master_reply' = [is_master_reply EXCEPT ![c] = Some(out.val)]
                  /\ pc' = [pc EXCEPT ![c] = "ReplyReceived"]
                  /\ UNCHANGED <<client_first, first_round, result>>
             ELSE Fail(c, out.val)
    /\ UNCHANGED <<mechanisms_asked, once, init_runs, construction>>
    /\ UNCHANGED <<BASE_CLIENT_METADATA, pool_options, handshaker, command, conn>>

\* A variant that assigns the stream description before the reply is
\* validated.
ValidateLoadBalance_assign_first(c) ==
    /\ pc[c] = "ReplyReceived"
    /\ conn' = [conn EXCEPT ![c].stream_description =
                   Some(StreamDescription_from_is_master(unwrap(is_master_reply[c])))]
    /\ IF LoadBalanceMismatch(unwrap(handshaker).command, unwrap(is_master_reply[c]))
       THEN Fail(c, IncompatibleServer)
       ELSE /\ pc' = [pc EXCEPT ![c] = "LoadBalanceValidated"]
            /\ UNCHANGED <<client_first, is_master_reply, first_round, result>>
    /\ UNCHANGED <<mechanisms_asked, once, init_runs, construction>>
    /\ UNCHANGED <<BASE_CLIENT_METADATA, pool_options, handshaker, command, exec_log>>

\* Lines 201-210: the load-balancing check of the reply.
ValidateLoadBalance(c) ==
    /\ pc[c] = "ReplyReceived"
    /\ IF LoadBalanceMismatch(unwrap(handshaker).command, unwrap(is_master_reply[c]))
       THEN Fail(c, IncompatibleServer)
       ELSE /\ pc' = [pc EXCEPT ![c] = "LoadBalanceValidated"]
            /\ UNCHANGED <<client_first, is_master_reply, first_round, result>>
    /\ UNCHANGED <<mechanisms_asked, once, init_runs, construction>>
    /\ UNCHANGED <<BASE_CLIENT_METADATA, pool_options, handshaker, command, conn, exec_log>>

\* A variant that also assigns the stream description of a reply that was not
\* put through the load-balancing check.
AssignStreamDescription_unvalidated(c) ==
    /\ pc[c] \in {"ReplyReceived", "LoadBalanceValidated"}
    /\ conn' = [conn EXCEPT ![c].stream_description =
                   Some(StreamDescription_from_is_master(unwrap(is_master_reply[c])))]
    /\ pc' = [pc EXCEPT ![c] = "StreamDescriptionAssigned"]
    /\ UNCHANGED <<mechanisms_asked, once, init_runs, construction>>
    /\ UNCHANGED <<BASE_CLIENT_METADATA, pool_options, handshaker, command, client_first,
                   is_master_reply, first_round, result, exec_log>>

\* Line 211: conn.stream_description = Some(from_is_master(reply.clone()))
AssignStreamDescription(c) ==
    /\ pc[c] = "LoadBalanceValidated"
    /\ conn' = [conn EXCEPT ![c].stream_description =
                   Some(StreamDescription_from_is_master(unwrap(is_master_reply[c])))]
    /\ pc' = [pc EXCEPT ![c] = "StreamDescriptionAssigned"]
    /\ UNCHANGED <<mechanisms_asked, once, init_runs, construction>>
    /\ UNCHANGED <<BASE_CLIENT_METADATA, pool_options, handshaker, command, client_first,
                   is_master_reply, first_round, result, exec_log>>

\* Lines 215-221: let first_round = client_first.and_then(..take()..)
PairFirstRound(c) ==
    /\ pc[c] = "StreamDescriptionAssigned"
    /\ LET r == pair_first_round(client_first[c], unwrap(is_master_reply[c]))
       IN  /\ first_round' = [first_round EXCEPT ![c] = r.first_round]
           /\ is_master_reply' = [is_master_reply EXCEPT ![c] = Some(r.is_master_reply)]
           /\ pc' = [pc EXCEPT ![c] = IF is_some(r.first_round)
                                      THEN "FirstRoundPaired" ELSE "FirstRoundAbsent"]
    /\ client_first' = [client_first EXCEPT ![c] = None]
    /\ UNCHANGED <<mechanisms_asked, once, init_runs, construction>>
    /\ UNCHANGED <<BASE_CLIENT_METADATA, pool_options, handshaker, command, conn, result, exec_log>>

\* Lines 223-226: Ok(HandshakeResult { is_master_reply, first_round })
Return(c) ==
    /\ pc[c] \in {"FirstRoundPaired", "FirstRoundAbsent"}
    /\ result' = [result EXCEPT ![c] =
                     Some(Ok([is_master_reply |-> unwrap(is_master_reply[c]),
                              first_round     |-> first_round[c]]))]
    /\ is_master_reply' = [is_master_reply EXCEPT ![c] = None]
    /\ first_round' = [first_round EXCEPT ![c] = None]
    /\ pc' = [pc EXCEPT ![c] = "Done"]
    /\ UNCHANGED <<mechanisms_asked, once, init_runs, construction>>
    /\ UNCHANGED <<BASE_CLIENT_METADATA, pool_options, handshaker, command, client_first, conn, exec_log>>

\* The steps of a handshake() call after its first.
Continue(c) ==
    \/ SetSpeculativeAuthInfo(c)
    \/ Send(c)
    \/ Receive(c)
    \/ ValidateLoadBalance(c)
    \/ AssignStreamDescription(c)
    \/ PairFirstRound(c)
    \/ Return(c)

Next ==
    \/ \E options \in PoolOptions, host \in Hosts : New(options, host)
    \/ \E c \in Conns : Clone(c)
    \/ \E c \in Conns : Continue(c)

Spec == Init /\ [][Next]_vars

\* The handshakes under fair scheduling: the runtime polls every started
\* handshake until it returns, and the execution collaborator eventually
\* gives each call its outcome.  The Handshaker is built from any credential
\* and load-balancing choice, identity options unset, on a fully probed host.
FairNext ==
    \/ \E options \in {o \in PoolOptions : is_some(o) => is_none(unwrap(o).app_name)},
          host \in {h \in Hosts : is_some(h.triple)} : New(options, host)
    \/ \E c \in Conns : Clone(c)
    \/ \E c \in Conns : Continue(c)

FairSpec == Init /\ [][FairNext]_vars /\ \A c \in Conns : WF_vars(Continue(c))


(* ----------------- concurrent calls of Handshaker::new ----------------- *)

\* Every result of probing the host.
AllHosts == [os_version : OsVersionProbes, triple : RustcTripleProbes]

\* The options the concurrent new() calls are given: none, or every choice of
\* app name and driver info, with no credential, or with a credential of
\* each hint-insertion outcome and source database.
NewOptions ==
    {None} \cup
    { Some(o) : o \in { r \in HandshakerOptionsRecords :
          \/ /\ is_none(r.credential) /\ is_none(r.server_api) /\ ~r.load_balanced
          \/ /\ is_some(r.credential) /\ is_some(r.server_api) /\ r.load_balanced
             /\ is_none(unwrap(r.credential).mechanism)
             /\ is_some(unwrap(r.credential).username)
          \/ /\ is_some(r.credential) /\ is_none(r.server_api) /\ ~r.load_balanced
             /\ unwrap(r.credential).mechanism \in {Some("SCRAM-SHA-1"), Some("PLAIN")} } }

\* Line 147, the dereference of the lazy_static by the first thread to get
\* there: it takes the Once and starts running the initializer.  A thread
\* that arrives while the initializer runs waits for it.
BeginInit(t) ==
    /\ new_pc[t] = "Entered"
    /\ once = "Incomplete"
    /\ once' = "Running"
    /\ new_pc' = [new_pc EXCEPT ![t] = "Initializing"]
    /\ UNCHANGED <<BASE_CLIENT_METADATA, pool_options, handshaker, pc, command,
                   client_first, is_master_reply, first_round, conn, result, exec_log,
                   mechanisms_asked, init_runs, new_options, new_metadata, new_result>>

\* Lines 100-132: the initializer block, on a host where probing gives `host`.
RunInitializer(t, host) ==
    /\ new_pc[t] = "Initializing"
    /\ BASE_CLIENT_METADATA' = Some(BaseClientMetadataInit(host.os_version, host.triple))
    /\ init_runs' = init_runs + 1
    /\ once' = "Complete"
    /\ new_pc' = [new_pc EXCEPT ![t] = "Entered"]
    /\ UNCHANGED <<pool_options, handshaker, pc, command, client_first, is_master_reply,
                   first_round, conn, result, exec_log, mechanisms_asked,
                   new_options, new_metadata, new_result>>

\* Line 147: let mut metadata = BASE_CLIENT_METADATA.clone();
CloneBase(t) ==
    /\ new_pc[t] = "Entered"
    /\ once = "Complete"
    /\ new_metadata' = [new_metadata EXCEPT ![t] = BASE_CLIENT_METADATA]
    /\ new_pc' = [new_pc EXCEPT ![t] = "Cloned"]
    /\ UNCHANGED <<BASE_CLIENT_METADATA, pool_options, handshaker, pc, command,
                   client_first, is_master_reply, first_round, conn, result, exec_log,
                   mechanisms_asked, once, init_runs, new_options, new_result>>

\* A variant that customizes the shared base value instead of the clone.
Build_in_place(t, options) ==
    /\ new_pc[t] = "Cloned"
    /\ BASE_CLIENT_METADATA' =
          IF is_some(options)
          THEN Some(customize(unwrap(BASE_CLIENT_METADATA), unwrap(options)))
          ELSE BASE_CLIENT_METADATA
    /\ new_options' = [new_options EXCEPT ![t] = Some(options)]
    /\ new_result' = [new_result EXCEPT ![t] =
                         Some(Handshaker_new(unwrap(BASE_CLIENT_METADATA), options))]
    /\ new_pc' = [new_pc EXCEPT ![t] = "Returned"]
    /\ UNCHANGED <<pool_options, handshaker, pc, command, client_first, is_master_reply,
                   first_round, conn, result, exec_log, mechanisms_asked, once,
                   init_runs, new_metadata>>

\* Lines 149-191: the rest of new(options), on the thread's clone.  The
\* options are first read at line 150, after the clone, so they are drawn
\* here.
Build(t, options) ==
    /\ new_pc[t] = "Cloned"
    /\ new_options' = [new_options EXCEPT ![t] = Some(options)]
    /\ new_result' = [new_result EXCEPT ![t] =
                         Some(Handshaker_new(unwrap(new_metadata[t]), options))]
    /\ new_pc' = [new_pc EXCEPT ![t] = "Returned"]
    /\ UNCHANGED <<BASE_CLIENT_METADATA, pool_options, handshaker, pc, command,
                   client_first, is_master_reply, first_round, conn, result, exec_log,
                   mechanisms_asked, once, init_runs, new_metadata>>

NewNext ==
    \/ \E t \in Threads : BeginInit(t)
    \/ \E t \in Threads, host \in AllHosts : RunInitializer(t, host)
    \/ \E t \in Threads : CloneBase(t)
    \/ \E t \in Threads, options \in NewOptions : Build(t, options)

\* NThreads threads, each calling Handshaker::new once, in any interleaving.
NewSpec == Init /\ [][NewNext]_vars


(* ======================= the claims: shared terms ====================== *)

\* The options the Handshaker was built from, None when new(None) was called
\* or nothing was built yet.
BuiltWith == IF is_some(pool_options) THEN unwrap(pool_options) ELSE None

LoadBalancedRequested == is_some(BuiltWith) /\ unwrap(BuiltWith).load_balanced

ConfiguredCredential == IF is_some(BuiltWith) THEN unwrap(BuiltWith).credential ELSE None

Template == unwrap(handshaker).command

Executed(c) == Len(exec_log[c]) > 0

LastExec(c) == exec_log[c][Len(exec_log[c])]

\* run_is_master returned a reply to call c.
GotReply(c) == Executed(c) /\ is_some(LastExec(c).outcome) /\ unwrap(LastExec(c).outcome).ok

ReplyOf(c) == unwrap(LastExec(c).outcome).val

\* run_is_master returned an error to call c.
GotExecError(c) ==
    Executed(c) /\ is_some(LastExec(c).outcome) /\ ~unwrap(LastExec(c).outcome).ok

Succeeded(c) == is_some(result[c]) /\ unwrap(result[c]).ok

FailedWith(c, e) == is_some(result[c]) /\ ~unwrap(result[c]).ok /\ unwrap(result[c]).val = e

StreamDescriptionSet(c) == is_some(conn[c].stream_description)

SPEC_AUTH == "speculativeAuthenticate"

(* ================================ C1 ================================== *)

\* C1: on a Handshaker built with load_balanced = true, a call whose reply
\* omits serviceId never sets the stream description and ends with the
\* incompatible-server error; a call whose reply includes serviceId does
\* not fail, and has set the stream description when it has returned.
C1_LoadBalancedServiceId ==
    \A c \in Conns :
        (LoadBalancedRequested /\ GotReply(c)) =>
            IF is_none(ReplyOf(c).command_response.service_id)
            THEN /\ ~StreamDescriptionSet(c)
                 /\ pc[c] \in {"ReplyReceived", "Failed"}
                 /\ pc[c] = "Failed" => FailedWith(c, IncompatibleServer)
            ELSE /\ pc[c] # "Failed"
                 /\ pc[c] = "Done" => Succeeded(c) /\ StreamDescriptionSet(c)

C1_Witness ==
    /\ LoadBalancedRequested
    /\ \E c1, c2 \in Conns :
          /\ GotReply(c1) /\ is_none(ReplyOf(c1).command_response.service_id)
          /\ FailedWith(c1, IncompatibleServer) /\ ~StreamDescriptionSet(c1)
          /\ GotReply(c2) /\ is_some(ReplyOf(c2).command_response.service_id)
          /\ pc[c2] = "Done" /\ Succeeded(c2) /\ StreamDescriptionSet(c2)

(* ================================ C2 ================================== *)

HandshakeErrors == {"Authentication", IncompatibleServer} \cup ExecErrors

\* C2: a call that has failed (with the authentication-configuration error,
\* an error of the execution step or the incompatible-server error) has not
\* set the stream description; the stream description is set only in a call
\* that is past every failure point, and every call that returned success
\* has set it.
C2_StreamDescriptionOnlyOnSuccess ==
    \A c \in Conns :
        /\ is_some(result[c]) <=> pc[c] \in {"Done", "Failed"}
        /\ pc[c] = "Failed" =>
              /\ ~Succeeded(c)
              /\ unwrap(result[c]).val \in HandshakeErrors
              /\ ~StreamDescriptionSet(c)
        /\ pc[c] = "Done" => Succeeded(c) /\ StreamDescriptionSet(c)
        /\ StreamDescriptionSet(c) =>
              pc[c] \in {"StreamDescriptionAssigned", "FirstRoundPaired",
                         "FirstRoundAbsent", "Done"}

C2_Witness ==
    \E c1, c2 \in Conns :
        /\ pc[c1] = "Failed" /\ FailedWith(c1, IncompatibleServer)
        /\ ~StreamDescriptionSet(c1)
        /\ pc[c2] = "Done" /\ Succeeded(c2) /\ StreamDescriptionSet(c2)

(* ================================ C3 ================================== *)

\* The body of an outbound command of call c is the template's body, or the
\* template's body followed by the speculativeAuthenticate entry made from
\* the client-first value of call c itself.
OwnCommand(cmd, c) ==
    /\ cmd.name = Template.name
    /\ cmd.target_db = Template.target_db
    /\ \/ cmd.body = Template.body
       \/ /\ Len(cmd.body) = Len(Template.body) + 1
          /\ SubSeq(cmd.body, 1, Len(Template.body)) = Template.body
          /\ cmd.body[Len(cmd.body)][1] = SPEC_AUTH
          /\ \E m \in {"SCRAM-SHA-1", "SCRAM-SHA-256", "MONGODB-X509"} :
                cmd.body[Len(cmd.body)][2] =
                    to_document([mechanism |-> m, source |-> Template.target_db, nonce |-> c])

CommandsWellFormed ==
    \A c \in Conns :
        /\ is_some(command[c]) => OwnCommand(unwrap(command[c]), c)
        /\ \A i \in 1..Len(exec_log[c]) : OwnCommand(exec_log[c][i].command, c)

\* C3: under every interleaving of the handshakes, no step changes the
\* Handshaker once it is built (the template is the same before and after
\* every call), and every command a call holds or has sent is the template
\* plus at most that call's own speculativeAuthenticate entry.
C3_TemplateNeverMutated ==
    [][ /\ is_some(handshaker) => handshaker' = handshaker
        /\ CommandsWellFormed' ]_vars

C3_Witness ==
    \E c1, c2 \in Conns :
        /\ c1 # c2
        /\ Executed(c1) /\ contains_key(exec_log[c1][1].command.body, SPEC_AUTH)
        /\ Executed(c2) /\ contains_key(exec_log[c2][1].command.body, SPEC_AUTH)
        /\ exec_log[c1][1].command # exec_log[c2][1].command
        /\ ~contains_key(Template.body, SPEC_AUTH)

(* ================================ C4 ================================== *)

\* C4: with no credential configured, no command a call holds or sends
\* contains speculativeAuthenticate, no client-first value and no first
\* round exist, and a successful result has no first round, whether or not
\* the reply carried a speculativeAuthenticate response.
C4_NoCredentialNoSpeculation ==
    (is_some(handshaker) /\ is_none(ConfiguredCredential)) =>
        \A c \in Conns :
            /\ is_some(command[c]) => ~contains_key(unwrap(command[c]).body, SPEC_AUTH)
            /\ \A i \in 1..Len(exec_log[c]) :
                  ~contains_key(exec_log[c][i].command.body, SPEC_AUTH)
            /\ is_none(client_first[c])
            /\ is_none(first_round[c])
            /\ Succeeded(c) => is_none(unwrap(result[c]).val.first_round)

C4_Witness ==
    /\ is_some(handshaker) /\ is_none(ConfiguredCredential)
    /\ \E c1, c2 \in Conns :
          /\ Succeeded(c1) /\ is_none(unwrap(result[c1]).val.first_round)
          /\ is_some(ReplyOf(c1).command_response.speculative_authenticate)
          /\ Succeeded(c2) /\ is_none(unwrap(result[c2]).val.first_round)
          /\ is_none(ReplyOf(c2).command_response.speculative_authenticate)

(* ================================ C5 ================================== *)

\* The command call c sent carries a speculativeAuthenticate document.
OutboundSpeculative(c) ==
    Executed(c) /\ contains_key(exec_log[c][1].command.body, SPEC_AUTH)

\* The first round of a successful call c pairs the client-first value whose
\* document the call sent with the server-first value of the call's reply.
PairsOwnMessages(c) ==
    /\ is_some(unwrap(result[c]).val.first_round)
    /\ OutboundSpeculative(c)
    /\ to_document(unwrap(unwrap(result[c]).val.first_round).client_first)
          = get(exec_log[c][1].command.body, SPEC_AUTH)
    /\ Some(unwrap(unwrap(result[c]).val.first_round).server_first)
          = ReplyOf(c).command_response.speculative_authenticate

\* C5 as stated: with a credential present, a returned result has a first
\* round pairing the call's own messages whenever the reply carries a
\* speculativeAuthenticate response, and none when the reply omits it.
C5_AsStated ==
    \A c \in Conns :
        (is_some(ConfiguredCredential) /\ pc[c] = "Done") =>
            IF is_some(ReplyOf(c).command_response.speculative_authenticate)
            THEN PairsOwnMessages(c)
            ELSE is_none(unwrap(result[c]).val.first_round)

\* C5, amended: with a credential present, a call that got a reply succeeds
\* unless the load-balancing check rejects the reply; its first round is
\* present, pairing the call's own client-first and server-first values,
\* exactly when the command it sent carried speculativeAuthenticate and the
\* reply carries a speculativeAuthenticate response, and absent otherwise.
C5_FirstRoundPairsOwnMessages ==
    \A c \in Conns :
        (is_some(ConfiguredCredential) /\ GotReply(c) /\ pc[c] \in {"Done", "Failed"}) =>
            IF LoadBalancedRequested /\ is_none(ReplyOf(c).command_response.service_id)
            THEN FailedWith(c, IncompatibleServer)
            ELSE /\ Succeeded(c)
                 /\ IF /\ OutboundSpeculative(c)
                       /\ is_some(ReplyOf(c).command_response.speculative_authenticate)
                    THEN PairsOwnMessages(c)
                    ELSE is_none(unwrap(result[c]).val.first_round)

C5_Witness ==
    /\ is_some(ConfiguredCredential)
    /\ \E c1, c2 \in Conns :
          /\ Succeeded(c1) /\ PairsOwnMessages(c1)
          /\ Succeeded(c2) /\ OutboundSpeculative(c2)
          /\ is_none(ReplyOf(c2).command_response.speculative_authenticate)
          /\ is_none(unwrap(result[c2]).val.first_round)

(* ================================ C6 ================================== *)

NoMechanismDeclared ==
    is_some(ConfiguredCredential) /\ is_none(unwrap(ConfiguredCredential).mechanism)

\* Two commands that differ at most in the random payload of their
\* speculativeAuthenticate documents.
SameUpToPayload(a, b) ==
    /\ a.name = b.name
    /\ a.target_db = b.target_db
    /\ without(a.body, SPEC_AUTH) = without(b.body, SPEC_AUTH)
    /\ contains_key(a.body, SPEC_AUTH) /\ contains_key(b.body, SPEC_AUTH)
    /\ without(get(a.body, SPEC_AUTH), "payload") = without(get(b.body, SPEC_AUTH), "payload")

C7_NoRetryErrorUnchanged ==
    \A c \in Conns :
        /\ Len(exec_log[c]) <= 1
        /\ GotExecError(c) =>
              /\ pc[c] = "Failed"
              /\ FailedWith(c, unwrap(LastExec(c).outcome).val)
              /\ ~StreamDescriptionSet(c)
              /\ is_none(is_master_reply[c])
              /\ is_none(first_round[c])

C7_Witness ==
    /\ LoadBalancedRequested
    /\ \E c1, c2 \in Conns :
          /\ GotExecError(c1) /\ FailedWith(c1, "Io") /\ Len(exec_log[c1]) = 1
          /\ GotExecError(c2) /\ FailedWith(c2, "Command") /\ ~StreamDescriptionSet(c2)

(* ================================ C8 ================================== *)

\* The order of the states of a handshake call, with the failed state.
HandshakeTransitions ==
    { <<"Init", "CommandCloned">>,
      <<"CommandCloned", "SpeculativeAuthAttached">>,
      <<"CommandCloned", "SpeculativeAuthSkipped">>,
      <<"CommandCloned", "Failed">>,
      <<"SpeculativeAuthAttached", "Sent">>,
      <<"SpeculativeAuthSkipped", "Sent">>,
      <<"Sent", "ReplyReceived">>,
      <<"Sent", "Failed">>,
      <<"ReplyReceived", "LoadBalanceValidated">>,
      <<"ReplyReceived", "Failed">>,
      <<"LoadBalanceValidated", "StreamDescriptionAssigned">>,
      <<"StreamDescriptionAssigned", "FirstRoundPaired">>,
      <<"StreamDescriptionAssigned", "FirstRoundAbsent">>,
      <<"FirstRoundPaired", "Done">>,
      <<"FirstRoundAbsent", "Done">> }

\* C8: every change of a call's state follows the sequence Init,
\* CommandCloned, SpeculativeAuthAttached or SpeculativeAuthSkipped, Sent,
\* ReplyReceived, LoadBalanceValidated, StreamDescriptionAssigned,
\* FirstRoundPaired or FirstRoundAbsent, Done, or leaves it for Failed;
\* nothing leaves Done or Failed; and a call that was started eventually
\* reaches Done or Failed (again and again no call is between Init and its
\* end, and no call returns to Init).
C8_SequentialStateMachine ==
    /\ [][\A c \in Conns : pc'[c] # pc[c] => <<pc[c], pc'[c]>> \in HandshakeTransitions]_vars
    /\ []<>(\A c \in Conns : pc[c] \in {"Init", "Done", "Failed"})

C8_Witness ==
    \E c1, c2 \in Conns :
        /\ pc[c1] = "Done" /\ is_some(unwrap(result[c1]).val.first_round)
        /\ pc[c2] = "Failed"

(* ================================ C9 ================================== *)

\* What the mechanism answers for call c when asked for a first message.
BuildOutcome(c) ==
    build_speculative_client_first(
        IF is_some(unwrap(ConfiguredCredential).mechanism)
        THEN unwrap(unwrap(ConfiguredCredential).mechanism) ELSE "SCRAM-SHA-256",
        unwrap(ConfiguredCredential), c)

PastComposer(c) == pc[c] \notin {"Init", "CommandCloned"}

\* C9: when building the first message fails, the call has failed with that
\* error, nothing was handed to the execution step, the stream description
\* is unset and the Handshaker is still what new() built; when the mechanism
\* yields no message, the call does not fail with that error: it goes on
\* without a client-first value and what it sends has no
\* speculativeAuthenticate.
C9_BuildFailureBeforeSend ==
    is_some(ConfiguredCredential) =>
        /\ handshaker = Some(Handshaker_new(unwrap(BASE_CLIENT_METADATA), unwrap(pool_options)))
        /\ \A c \in Conns : PastComposer(c) =>
              /\ ~BuildOutcome(c).ok =>
                    /\ pc[c] = "Failed"
                    /\ FailedWith(c, BuildOutcome(c).val)
                    /\ exec_log[c] = <<>>
                    /\ ~StreamDescriptionSet(c)
              /\ (BuildOutcome(c).ok /\ is_none(BuildOutcome(c).val)) =>
                    /\ ~FailedWith(c, "Authentication")
                    /\ pc[c] # "SpeculativeAuthAttached"
                    /\ is_none(client_first[c])
                    /\ pc[c] = "SpeculativeAuthSkipped" \/ Executed(c)
                    /\ \A i \in 1..Len(exec_log[c]) :
                          ~contains_key(exec_log[c][i].command.body, SPEC_AUTH)

C9_Witness ==
    /\ is_some(ConfiguredCredential)
    /\ \E c1, c2 \in Conns :
          /\ c1 # c2
          /\ ~BuildOutcome(c1).ok
          /\ FailedWith(c1, "Authentication") /\ exec_log[c1] = <<>>
          /\ ~StreamDescriptionSet(c1)
          /\ pc[c2] = "Failed" /\ FailedWith(c2, "Authentication")

C9_WitnessNoMessage ==
    /\ is_some(ConfiguredCredential)
    /\ \E c \in Conns :
          /\ BuildOutcome(c).ok /\ is_none(BuildOutcome(c).val)
          /\ pc[c] = "Done" /\ Executed(c)

(* ================================ C10 ================================= *)

\* C10: the composer step leaves the command body exactly as it was when it
\* ends without a client-first value (no credential, no message from the
\* mechanism, or a failure to build); otherwise the body it leaves is the
\* old body with the speculativeAuthenticate key added, holding the
\* document form of the client-first value it returned, every other entry
\* unchanged.
C10_ComposerFrame ==
    [][\A c \in Conns :
          (pc[c] = "CommandCloned" /\ pc'[c] # "CommandCloned") =>
              LET old == unwrap(command[c])
                  new == unwrap(command'[c])
              IN  /\ new.name = old.name /\ new.target_db = old.target_db
                  /\ IF is_some(client_first'[c])
                     THEN /\ pc'[c] = "SpeculativeAuthAttached"
                          /\ new.body # old.body
                          /\ contains_key(new.body, SPEC_AUTH)
                          /\ get(new.body, SPEC_AUTH) = to_document(unwrap(client_first'[c]))
                          /\ without(new.body, SPEC_AUTH) = old.body
                     ELSE /\ pc'[c] \in {"SpeculativeAuthSkipped", "Failed"}
                          /\ new.body = old.body]_vars

C10_Witness ==
    \E c1, c2 \in Conns :
        /\ pc[c1] = "SpeculativeAuthAttached"
        /\ contains_key(unwrap(command[c1]).body, SPEC_AUTH)
        /\ Len(unwrap(command[c1]).body) = Len(Template.body) + 1
        /\ pc[c2] = "CommandCloned" /\ unwrap(command[c2]) = Template


(* ===================== the claims: Handshaker::new ===================== *)

\* Thread t's new() call has returned.
Returned(t) == new_pc[t] = "Returned"

\* The options thread t's call was given, and the Handshaker it returned.
OptionsOf(t) == unwrap(new_options[t])

HandshakerOf(t) == unwrap(new_result[t])

\* The `client` document of the Handshaker thread t built.
ClientOf(t) == get(HandshakerOf(t).command.body, "client")

\* The driver info thread t's call was given, None when it had no options.
DriverInfoOf(t) == IF is_some(OptionsOf(t)) THEN unwrap(OptionsOf(t)).driver_info ELSE None

AppNameOf(t) == IF is_some(OptionsOf(t)) THEN unwrap(OptionsOf(t)).app_name ELSE None

CredentialOf(t) == IF is_some(OptionsOf(t)) THEN unwrap(OptionsOf(t)).credential ELSE None

\* C11: under any interleaving of concurrent new() calls the initializer of
\* the base metadata runs at most once, and exactly once as soon as a caller
\* holds a clone; every caller's clone is the one cached value; and once the
\* value is cached no step changes it, customization included.
C11_BaseInitializedOnce ==
    [][ /\ is_some(BASE_CLIENT_METADATA) => BASE_CLIENT_METADATA' = BASE_CLIENT_METADATA
        /\ init_runs' <= 1
        /\ is_some(BASE_CLIENT_METADATA') <=> init_runs' = 1
        /\ (once' = "Complete") <=> is_some(BASE_CLIENT_METADATA')
        /\ \A t \in Threads :
              new_pc'[t] \in {"Cloned", "Returned"} =>
                /\ init_runs' = 1
                /\ new_metadata'[t] = BASE_CLIENT_METADATA' ]_vars

\* Two threads went through the first access; one has returned a Handshaker
\* customized with a driver info while the other still holds its clone.
C11_Witness ==
    \E t1, t2 \in Threads :
        /\ t1 # t2
        /\ Returned(t1) /\ is_some(DriverInfoOf(t1)) /\ is_some(AppNameOf(t1))
        /\ new_pc[t2] = "Cloned"
        /\ init_runs = 1

\* A thread waits at the dereference while another runs the initializer.
C11_WitnessContention ==
    \E t1, t2 \in Threads :
        new_pc[t1] = "Initializing" /\ new_pc[t2] = "Entered" /\ once = "Running"

\* The driver sub-document of the identity document thread t built.
DriverOf(t) == get(ClientOf(t), "driver")

\* C12: in the identity document of every Handshaker the base driver name
\* and version come first; a driver info {name N, version V} gives
\* driver.name = base-name|N and driver.version = base-version|V; with no
\* app name and no driver info there is no application key and both fields
\* are the base values.
C12_BaseIdentityFirst ==
    \A t \in Threads :
        Returned(t) =>
          LET name    == get(DriverOf(t), "name")
              version == get(DriverOf(t), "version")
              info    == DriverInfoOf(t)
          IN  /\ contains_key(ClientOf(t), "driver")
              /\ Len(name) >= 1 /\ Head(name) = "mongo-rust-driver"
              /\ Len(version) >= 1 /\ Head(version) = CARGO_PKG_VERSION
              /\ (is_some(info) /\ is_some(unwrap(info).version)) =>
                    /\ name = <<"mongo-rust-driver", "|">> \o unwrap(info).name
                    /\ version = <<CARGO_PKG_VERSION, "|">> \o unwrap(unwrap(info).version)
              /\ (is_none(info) /\ is_none(AppNameOf(t))) =>
                    /\ ~contains_key(ClientOf(t), "application")
                    /\ name = <<"mongo-rust-driver">>
                    /\ version = <<CARGO_PKG_VERSION>>

\* One thread built with a driver info that has a version, another with
\* options that name neither an application nor a driver info.
C12_Witness ==
    \E t1, t2 \in Threads :
        /\ Returned(t1) /\ is_some(DriverInfoOf(t1))
        /\ is_some(unwrap(DriverInfoOf(t1)).version)
        /\ Returned(t2) /\ is_some(OptionsOf(t2))
        /\ is_none(DriverInfoOf(t2)) /\ is_none(AppNameOf(t2))

\* The base platform thread t cloned: None when version_check::triple() gave
\* nothing.
BasePlatformOf(t) == unwrap(new_metadata[t]).platform

\* s ends with the tokens of suffix.
EndsWith(s, suffix) ==
    /\ Len(s) >= Len(suffix)
    /\ SubSeq(s, Len(s) - Len(suffix) + 1, Len(s)) = suffix

\* C13: whenever the driver info supplies a platform, the platform field of
\* the identity document carries it, joined with | behind the base platform
\* where there is one, whether or not the base platform was determined.
C13_AsStated ==
    \A t \in Threads :
        (Returned(t) /\ is_some(DriverInfoOf(t))
                     /\ is_some(unwrap(DriverInfoOf(t)).platform)) =>
          LET wrapper == unwrap(unwrap(DriverInfoOf(t)).platform)
          IN  /\ contains_key(ClientOf(t), "platform")
              /\ EndsWith(get(ClientOf(t), "platform"), wrapper)
              /\ is_some(BasePlatformOf(t)) =>
                    get(ClientOf(t), "platform") =
                        unwrap(BasePlatformOf(t)) \o <<"|">> \o wrapper

\* A Handshaker built with a driver info that names a platform, on a host
\* whose compiler triple is unknown: its identity document has no platform.
C13_Witness ==
    \E t \in Threads :
        /\ Returned(t) /\ is_some(DriverInfoOf(t))
        /\ is_some(unwrap(DriverInfoOf(t)).platform)
        /\ is_none(BasePlatformOf(t))
        /\ ~contains_key(ClientOf(t), "platform")

\* What lines 167-172 do: the driver info's platform is joined behind the
\* base platform when that was determined, and left out otherwise.
C13_PlatformOnlyWithBase ==
    \A t \in Threads :
        Returned(t) =>
          IF is_none(BasePlatformOf(t))
          THEN ~contains_key(ClientOf(t), "platform")
          ELSE get(ClientOf(t), "platform") =
                 IF is_some(DriverInfoOf(t)) /\ is_some(unwrap(DriverInfoOf(t)).platform)
                 THEN unwrap(BasePlatformOf(t)) \o <<"|">>
                        \o unwrap(unwrap(DriverInfoOf(t)).platform)
                 ELSE unwrap(BasePlatformOf(t))

(* =================== the claims: Handshaker::handshake ================= *)

\* Call c has returned, with Ok or with Err.
Finished(c) == pc[c] \in {"Done", "Failed"}

\* C14: a finished call has failed with the incompatible-server error if and
\* only if the Handshaker was built with load_balanced = true, the execution
\* step gave a reply and that reply has no serviceId.  A Handshaker built
\* without options or with load_balanced = false has no loadBalanced key in
\* its template; a load-balanced one has loadBalanced = true there.
C14_IncompatibleServerIff ==
    is_some(handshaker) =>
      /\ contains_key(Template.body, "loadBalanced") <=> LoadBalancedRequested
      /\ LoadBalancedRequested => get(Template.body, "loadBalanced") = TRUE
      /\ \A c \in Conns :
            Finished(c) =>
              (FailedWith(c, IncompatibleServer) <=>
                 /\ LoadBalancedRequested
                 /\ GotReply(c)
                 /\ is_none(ReplyOf(c).command_response.service_id))

\* On a Handshaker that is not load balanced a call got a reply without
\* serviceId and succeeded, while another call's execution step failed.
C14_WitnessNotLoadBalanced ==
    /\ is_some(handshaker) /\ ~LoadBalancedRequested
    /\ \E c1, c2 \in Conns :
          /\ Succeeded(c1) /\ is_none(ReplyOf(c1).command_response.service_id)
          /\ pc[c2] = "Failed" /\ GotExecError(c2)

\* On a load-balanced Handshaker one call failed with incompatible-server on
\* a reply without serviceId and another succeeded on a reply with one.
C14_Witness ==
    /\ LoadBalancedRequested
    /\ get(Template.body, "loadBalanced") = TRUE
    /\ \E c1, c2 \in Conns :
          /\ FailedWith(c1, IncompatibleServer) /\ GotReply(c1)
          /\ Succeeded(c2) /\ is_some(ReplyOf(c2).command_response.service_id)

\* The HandshakeResult of a call that returned Ok.
HandshakeResultOf(c) == unwrap(result[c]).val

\* The speculativeAuthenticate field of the reply the call returned, and of
\* the reply run_is_master gave it.
ReturnedSpeculative(c) ==
    HandshakeResultOf(c).is_master_reply.command_response.speculative_authenticate

ReceivedSpeculative(c) == ReplyOf(c).command_response.speculative_authenticate

\* C15: after a successful handshake the server's speculativeAuthenticate
\* response is in the first round or in the returned reply, never in both:
\* with a first round the returned reply no longer carries it and the first
\* round holds the response that was received, while the stream description
\* is the one derived from the reply as received; when the call produced no
\* client-first value, the response stays in the returned reply and there is
\* no first round.  Nothing else of the reply changes.
C15_SpeculativeResponseHeldOnce ==
    \A c \in Conns :
        Succeeded(c) =>
          LET first == HandshakeResultOf(c).first_round
          IN  /\ conn[c].stream_description =
                    Some(StreamDescription_from_is_master(ReplyOf(c)))
              /\ ~(is_some(first) /\ is_some(ReturnedSpeculative(c)))
              /\ is_some(first) =>
                    /\ is_some(ReceivedSpeculative(c))
                    /\ unwrap(first).server_first = unwrap(ReceivedSpeculative(c))
              /\ ~OutboundSpeculative(c) =>
                    /\ is_none(first)
                    /\ ReturnedSpeculative(c) = ReceivedSpeculative(c)
              /\ [HandshakeResultOf(c).is_master_reply
                    EXCEPT !.command_response.speculative_authenticate =
                             ReceivedSpeculative(c)] = ReplyOf(c)

\* One call returned a first round and a reply without the response, whose
\* stream description still shows that the server answered speculatively.
C15_Witness ==
    \E c1 \in Conns :
        /\ Succeeded(c1) /\ is_some(HandshakeResultOf(c1).first_round)
        /\ is_none(ReturnedSpeculative(c1))
        /\ is_some(unwrap(conn[c1].stream_description).reply_speculative_authenticate)

\* A call that sent no speculativeAuthenticate returned the reply with the
\* server's response still in it.
C15_WitnessKept ==
    \E c \in Conns :
        /\ Succeeded(c) /\ ~OutboundSpeculative(c)
        /\ is_some(ReturnedSpeculative(c))
        /\ is_none(HandshakeResultOf(c).first_round)

\* The composer produced a client-first value for call c: there is a
\* credential and its mechanism answered with a message.
ComposerProduced(c) ==
    /\ is_some(ConfiguredCredential)
    /\ BuildOutcome(c).ok
    /\ is_some(BuildOutcome(c).val)

\* C16: the first round of a successful call is present if and only if the
\* composer produced a client-first value for the call and the reply carries
\* a speculativeAuthenticate response.  So a mechanism that yields no
\* message gives no first round whatever the reply carries, and a
\* client-first value the server did not answer is dropped: the call
\* succeeds without a first round, and no finished call still holds its
\* client-first value.
C16_FirstRoundIff ==
    \A c \in Conns :
        /\ Succeeded(c) =>
              (is_some(HandshakeResultOf(c).first_round) <=>
                  ComposerProduced(c) /\ is_some(ReceivedSpeculative(c)))
        /\ (/\ Finished(c) /\ GotReply(c) /\ ComposerProduced(c)
            /\ is_none(ReceivedSpeculative(c))
            /\ ~LoadBalanceMismatch(Template, ReplyOf(c))) =>
              Succeeded(c) /\ is_none(HandshakeResultOf(c).first_round)
        /\ Finished(c) => is_none(client_first[c])

\* With a mechanism that produces a client-first value, one call was
\* answered speculatively and returned a first round, another was not and
\* returned none.
C16_Witness ==
    \E c1, c2 \in Conns :
        /\ ComposerProduced(c1) /\ Succeeded(c1)
        /\ is_some(ReceivedSpeculative(c1))
        /\ is_some(HandshakeResultOf(c1).first_round)
        /\ Succeeded(c2) /\ is_none(ReceivedSpeculative(c2))
        /\ is_none(HandshakeResultOf(c2).first_round)

\* With a mechanism that yields no message, a call whose reply carries a
\* speculativeAuthenticate response returned no first round.
C16_WitnessNoMessage ==
    \E c \in Conns :
        /\ is_some(ConfiguredCredential) /\ ~ComposerProduced(c)
        /\ Succeeded(c) /\ is_some(ReceivedSpeculative(c))
        /\ is_none(HandshakeResultOf(c).first_round)

(* ================ the claims: the template new() builds ================ *)

\* The base command of thread t's call, as is_master_command gave it.
BaseCommandOf(t) ==
    is_master_command(IF is_some(OptionsOf(t)) THEN unwrap(OptionsOf(t)).server_api
                      ELSE None)

\* The template body without what lines 182 and 186 insert.
BodyBeforeFlags(t) ==
    without(without(HandshakerOf(t).command.body, "client"), "loadBalanced")

\* C17: a Handshaker built with a credential has the credential's resolved
\* source as target database, a body on which the credential's hint
\* insertion was run, and the credential retained; one built without a
\* credential, or without options, has the base command's target database
\* and body and no credential.  In every case the body carries the identity
\* document under `client`.
C17_CredentialShapesTemplate ==
    \A t \in Threads :
        Returned(t) =>
          LET h    == HandshakerOf(t)
              cred == CredentialOf(t)
          IN  /\ contains_key(h.command.body, "client")
              /\ contains_key(ClientOf(t), "driver") /\ contains_key(ClientOf(t), "os")
              /\ h.command.name = BaseCommandOf(t).name
              /\ IF is_some(cred)
                 THEN /\ h.command.target_db = resolved_source(unwrap(cred))
                      /\ BodyBeforeFlags(t) =
                            append_needed_mechanism_negotiation(unwrap(cred),
                                                                BaseCommandOf(t).body)
                      /\ h.credential = cred
                 ELSE /\ h.command.target_db = BaseCommandOf(t).target_db
                      /\ BodyBeforeFlags(t) = BaseCommandOf(t).body
                      /\ ~contains_key(h.command.body, "saslSupportedMechs")
                      /\ is_none(h.credential)

\* One thread built with a credential whose source database is not the
\* default, another without options.
C17_Witness ==
    \E t1, t2 \in Threads :
        /\ Returned(t1) /\ is_some(CredentialOf(t1))
        /\ HandshakerOf(t1).command.target_db # BaseCommandOf(t1).target_db
        /\ is_some(HandshakerOf(t1).credential)
        /\ Returned(t2) /\ is_none(OptionsOf(t2))
        /\ is_none(HandshakerOf(t2).credential)

\* A thread built with a credential for which the hint insertion added the
\* request for the user's mechanisms.
C17_WitnessHint ==
    \E t \in Threads :
        /\ Returned(t) /\ is_some(CredentialOf(t))
        /\ contains_key(HandshakerOf(t).command.body, "saslSupportedMechs")

(* ==================== the claims: mechanism selection ================== *)

\* C18: in a handshake call the composer asks at most one mechanism for a
\* first message, and only after the command was cloned; with a credential
\* it asks exactly one: the mechanism the credential declares, or
\* SCRAM-SHA-256 when it declares none.  Without a credential it asks none.
C18_MechanismAsked ==
    \A c \in Conns :
        /\ Len(mechanisms_asked[c]) <= 1
        /\ ~PastComposer(c) => mechanisms_asked[c] = <<>>
        /\ PastComposer(c) =>
              mechanisms_asked[c] =
                 IF is_none(ConfiguredCredential) THEN <<>>
                 ELSE IF is_some(unwrap(ConfiguredCredential).mechanism)
                      THEN <<unwrap(unwrap(ConfiguredCredential).mechanism)>>
                      ELSE <<"SCRAM-SHA-256">>

\* With a credential that declares a mechanism other than the default, a
\* call has asked that mechanism and finished.
C18_Witness ==
    \E c \in Conns :
        /\ Finished(c)
        /\ is_some(ConfiguredCredential)
        /\ is_some(unwrap(ConfiguredCredential).mechanism)
        /\ mechanisms_asked[c] = <<unwrap(unwrap(ConfiguredCredential).mechanism)>>
        /\ mechanisms_asked[c] # <<"SCRAM-SHA-256">>

\* With a credential that declares no mechanism, a call has asked
\* SCRAM-SHA-256 and sent its first message.
C18_WitnessDefault ==
    \E c \in Conns :
        /\ is_some(ConfiguredCredential) /\ NoMechanismDeclared
        /\ mechanisms_asked[c] = <<"SCRAM-SHA-256">>
        /\ OutboundSpeculative(c)

(* ================== the claims: name and version chains ================ *)

\* C19: a driver info with a name and no version extends driver.name to
\* base-name|name and leaves driver.version the base version, so the two
\* chains differ in length; the identity document has an application key,
\* holding the supplied name, exactly when an app name was supplied.
C19_NameWithoutVersion ==
    \A t \in Threads :
        Returned(t) =>
          /\ (is_some(DriverInfoOf(t)) /\ is_none(unwrap(DriverInfoOf(t)).version)) =>
                /\ get(DriverOf(t), "name") =
                      <<"mongo-rust-driver", "|">> \o unwrap(DriverInfoOf(t)).name
                /\ get(DriverOf(t), "version") = <<CARGO_PKG_VERSION>>
                /\ Len(get(DriverOf(t), "name")) > Len(get(DriverOf(t), "version"))
          /\ contains_key(ClientOf(t), "application") <=> is_some(AppNameOf(t))
          /\ is_some(AppNameOf(t)) =>
                get(ClientOf(t), "application") = << <<"name", unwrap(AppNameOf(t))>> >>

\* One thread built with a versionless driver info and an app name, another
\* with a versionless driver info and no app name.
C19_Witness ==
    \E t1, t2 \in Threads :
        /\ Returned(t1) /\ is_some(DriverInfoOf(t1))
        /\ is_none(unwrap(DriverInfoOf(t1)).version) /\ is_some(AppNameOf(t1))
        /\ Returned(t2) /\ is_some(DriverInfoOf(t2))
        /\ is_none(unwrap(DriverInfoOf(t2)).version) /\ is_none(AppNameOf(t2))
=============================================================================
